---- MODULE Spec2Model ----
(***************************************************************************)
(* Model of the job-dispatch engine of `parallel` (src/src/main.rs): the   *)
(* producer add_jobs, the worker threads of start_workers, the two         *)
(* unbounded crossbeam channels and the collector loop of main.            *)
(*                                                                         *)
(* Strings are sequences of one-character strings.  A job on the Job Queue *)
(* is the argument string the code sends; the field `src` that accompanies *)
(* it (and the JobResult made from it) is a history annotation holding the *)
(* ordinal of the argument in the order the producer read it.  The code    *)
(* never reads it; the properties use it to tell arguments apart.          *)
(***************************************************************************)
EXTENDS Integers, Sequences, FiniteSets, TLC

(***************************************************************************)
(* Bounds of the model.                                                    *)
(***************************************************************************)
MaxArgs == 2        \* longest argument list / most lines read from a stream
MaxJobs == 1        \* largest value given to --jobs
MaxClock == 1       \* the wall clock stops advancing at this reading
MaxArgsWithFile == 1 \* longest argument list tried together with --arg-file

NumCpus == 2        \* what num_cpus::get() returns on the modelled machine
FailStatus == 2     \* the status the backend reports for a command that fails
PanicStatus == 101  \* exit status of a Rust process whose main thread panics

\* Option<T>: None, or Some(x)
None == <<>>
Some(x) == <<x>>
Unwrap(o) == o[1]

Templates == { <<"e", "{", "}">>, <<"e">>, <<"{", "}", "e", "{", "}">> }
EchoTemplate == <<"e", "{", "}">>
ArgStrings == { <<"x">>, <<"{", "}">> }

\* The argument lists tried: x, {}, x, ... of every length up to MaxArgs.
ArgLists ==
    { [k \in 1..n |-> IF k % 2 = 1 THEN <<"x">> ELSE <<"{", "}">>] :
        n \in 0..MaxArgs }

Min(a, b) == IF a <= b THEN a ELSE b

(***************************************************************************)
(* str::replace(from, to) of the Rust standard library, for the two-       *)
(* character pattern "{}": matches are found left to right, do not         *)
(* overlap, and the replacement text is not searched again.                *)
(***************************************************************************)
\* Variant: only the first match is replaced, as str::replacen(.., 1) does.
RECURSIVE ReplaceFirst(_, _)
ReplaceFirst(s, arg) ==
    IF Len(s) < 2 THEN s
    ELSE IF s[1] = "{" /\ s[2] = "}"
         THEN arg \o SubSeq(s, 3, Len(s))
         ELSE <<s[1]>> \o ReplaceFirst(Tail(s), arg)

RECURSIVE Replace(_, _)
Replace(s, arg) ==
    IF Len(s) < 2 THEN s
    ELSE IF s[1] = "{" /\ s[2] = "}"
         THEN arg \o Replace(SubSeq(s, 3, Len(s)), arg)
         ELSE <<s[1]>> \o Replace(Tail(s), arg)

VARIABLES
    opts,         \* the parsed command line (struct Opts)
    mainPc,       \* position of the main thread
    source,       \* which branch of add_jobs supplies the arguments
    pos,          \* number of arguments the producer has read so far
    i,            \* add_jobs' counter of jobs sent
    always,       \* add_jobs' flag set by the answer "a"
    prompts,      \* history: the prompts printed, each <<src, command shown>>
    declined,     \* history: ordinals of the arguments answered "n"
    affirmedAll,  \* history: ordinal of the argument answered "a", or 0
    txAlive,      \* the Job Queue's only Sender `tx` has not been dropped
    jobQueue,     \* the Job Queue (tx, rx)
    workers,      \* the spawned worker threads, indexed by their `seq`
    now,          \* the reading of Local::now()
    resultQueue,  \* the Result Queue (rtx, rrx)
    received,     \* the JobResults the collector has taken, in order
    exit,         \* main's `exit` variable
    log,          \* records the main thread gave to the logger, in order
    workerLog,    \* records the worker threads gave to the logger
    exited,       \* the process has terminated
    exitStatus,   \* its exit status
    exitBy        \* history: which statement terminated it

vars == <<opts, mainPc, source, pos, i, always, prompts, declined,
          affirmedAll, txAlive, jobQueue, workers, now, resultQueue,
          received, exit, log, workerLog, exited, exitStatus, exitBy>>

producerVars == <<source, pos, i, always, prompts, declined, affirmedAll>>
collectorVars == <<received, exit>>
exitVars == <<exited, exitStatus, exitBy>>

(***************************************************************************)
(* struct Opts, restricted to the fields the engine reads.                 *)
(***************************************************************************)
Opts ==
    [ command     : Templates,
      arguments   : ArgLists,
      argfile     : {None, Some("f")},
      jobs        : {None} \cup { Some(n) : n \in 0..MaxJobs },
      dry_run     : BOOLEAN,
      halt        : BOOLEAN,
      interactive : BOOLEAN ]

(***************************************************************************)
(* State of main after Opts::from_args, create_logger and the creation of  *)
(* the two channels, whatever the command line was.                        *)
(***************************************************************************)
MainStart ==
    /\ mainPc = "start_workers"
    /\ source = "unset"
    /\ pos = 0
    /\ i = 0
    /\ always = FALSE
    /\ prompts = {}
    /\ declined = {}
    /\ affirmedAll = 0
    /\ txAlive = TRUE
    /\ jobQueue = <<>>
    /\ workers = <<>>
    /\ now = 0
    /\ resultQueue = <<>>
    /\ received = <<>>
    /\ exit = 0
    /\ log = <<>>
    /\ workerLog = {}
    /\ exited = FALSE
    /\ exitStatus = None
    /\ exitBy = "running"

(***************************************************************************)
(* Runs start from the command lines of Opts with the template "e{}"; an   *)
(* arg-file is given along with the shorter lists only, and --interactive  *)
(* is not combined with --dry-run.                                         *)
(***************************************************************************)
Init ==
    /\ opts \in Opts
    /\ opts.command = EchoTemplate
    /\ opts.argfile # None => Len(opts.arguments) <= MaxArgsWithFile
    /\ opts.interactive => ~opts.dry_run
    /\ MainStart

(***************************************************************************)
(* Runs of every template over an explicit list, on one worker, with and   *)
(* without --interactive.                                                  *)
(***************************************************************************)
InitText ==
    /\ opts \in Opts
    /\ opts.argfile = None
    /\ opts.jobs = Some(1)
    /\ ~opts.dry_run
    /\ ~opts.halt
    /\ MainStart

(***************************************************************************)
(* std::process::exit(status), and a panic of the main thread.             *)
(***************************************************************************)
ProcessExit(status, by) ==
    /\ exited' = TRUE
    /\ exitStatus' = Some(status)
    /\ exitBy' = by

(***************************************************************************)
(* The first argument of start_workers in main:                            *)
(*   opts.jobs.unwrap_or_else(num_cpus::get).min(opts.arguments.len())     *)
(***************************************************************************)
ConfiguredJobs == IF opts.jobs = None THEN NumCpus ELSE Unwrap(opts.jobs)

\* Variant: the clamp by the length of the argument list is left out.
WorkerCountNoClamp == ConfiguredJobs

WorkerCount == Min(ConfiguredJobs, Len(opts.arguments))

(***************************************************************************)
(* start_workers: spawns n threads, thread `seq` holding a clone of the    *)
(* Job Queue's Receiver and of the Result Queue's Sender; the originals    *)
(* are dropped when start_workers returns.                                 *)
(***************************************************************************)
IdleWorker ==
    [state |-> "idle", job |-> <<>>, src |-> 0, start |-> 0, cmd |-> <<>>]

StartWorkers ==
    /\ ~exited
    /\ mainPc = "start_workers"
    /\ workers' = [seq \in 0..(WorkerCount - 1) |-> IdleWorker]
    /\ mainPc' = "add_jobs"
    /\ UNCHANGED <<workerLog, opts, producerVars, txAlive, jobQueue, now,
                   resultQueue, collectorVars, log, exitVars>>

Spawned == mainPc # "start_workers"

\* Receivers of the Job Queue and Senders of the Result Queue still alive.
LiveWorkers == { w \in DOMAIN workers : workers[w].state # "exited" }

\* Variant: main keeps its own Receiver of the Job Queue alive.
JobReceiversKept == IF Spawned THEN Cardinality(LiveWorkers) + 1 ELSE 1

JobReceivers == IF Spawned THEN Cardinality(LiveWorkers) ELSE 1

ResultSenders == IF Spawned THEN Cardinality(LiveWorkers) ELSE 1

\* Variant: --arg-file is looked at before the explicit list.
AddJobsOpenFileFirst ==
    /\ ~exited
    /\ mainPc = "add_jobs"
    /\ source = "unset"
    /\ IF opts.argfile # None
       THEN \E opened \in BOOLEAN :
               IF ~opened
               THEN /\ log' = Append(log, [level |-> "error", src |-> 0])
                    /\ ProcessExit(1, "argfile")
                    /\ UNCHANGED source
               ELSE /\ source' = "file"
                    /\ UNCHANGED <<log, exitVars>>
       ELSE /\ source' = IF Len(opts.arguments) = 0 THEN "stdin" ELSE "list"
            /\ UNCHANGED <<log, exitVars>>
    /\ UNCHANGED <<workerLog, opts, mainPc, pos, i, always, prompts, declined,
                   affirmedAll, txAlive, jobQueue, workers, now, resultQueue,
                   collectorVars>>

(***************************************************************************)
(* add_jobs, lines 113-138: choice of the argument source.                 *)
(***************************************************************************)
AddJobsOpen ==
    /\ ~exited
    /\ mainPc = "add_jobs"
    /\ source = "unset"
    /\ IF Len(opts.arguments) = 0
       THEN IF opts.argfile # None
            THEN \E opened \in BOOLEAN :       \* File::open(&argfile)
                    IF ~opened
                    THEN /\ log' = Append(log, [level |-> "error", src |-> 0])
                         /\ ProcessExit(1, "argfile")
                         /\ UNCHANGED source
                    ELSE /\ source' = "file"
                         /\ UNCHANGED <<log, exitVars>>
            ELSE /\ source' = "stdin"
                 /\ UNCHANGED <<log, exitVars>>
       ELSE /\ source' = "list"
            /\ UNCHANGED <<log, exitVars>>
    /\ UNCHANGED <<workerLog, opts, mainPc, pos, i, always, prompts, declined,
                   affirmedAll, txAlive, jobQueue, workers, now, resultQueue,
                   collectorVars>>

Asking == opts.interactive /\ ~always

\* Line 88: the prompt for the argument of ordinal src shows `command`.
ShownAt(src, arg) == <<src, Replace(opts.command, arg)>>

\* Variant: the answer "n" leaves the loop by `break` instead of `return`.
MatchNoBreaks(input) ==
    CASE input \in {"y", "Y", "yes", "Yes", "", "n", "N", "no", "No"} -> "break"
      [] input \in {"a", "A", "all", "All", "always", "Always"} -> "always"
      [] OTHER -> "invalid"

\* Variant: the answer "a" leaves the loop without setting `always`.
MatchAllOnce(input) ==
    CASE input \in {"y", "Y", "yes", "Yes", "",
                    "a", "A", "all", "All", "always", "Always"} -> "break"
      [] input \in {"n", "N", "no", "No"} -> "return"
      [] OTHER -> "invalid"

\* The match on input.trim(), lines 98-106.
Match(input) ==
    CASE input \in {"y", "Y", "yes", "Yes", ""} -> "break"
      [] input \in {"n", "N", "no", "No"} -> "return"
      [] input \in {"a", "A", "all", "All", "always", "Always"} -> "always"
      [] OTHER -> "invalid"

(***************************************************************************)
(* The prompt loop, lines 87-107, run on the lines that standard input     *)
(* still holds: it ends at the first line that is a recognised answer, or  *)
(* at the end of input ("eof", read_line returns 0).                       *)
(***************************************************************************)
RECURSIVE Gate(_)
Gate(lines) ==
    IF lines = <<>> THEN "eof"
    ELSE IF Match(Head(lines)) = "invalid" THEN Gate(Tail(lines))
    ELSE Match(Head(lines))

\* History: the operator's first recognised answer on `lines` is a "no".
OperatorDeclines(lines) ==
    LET known == {"y", "Y", "yes", "Yes", "", "n", "N", "no", "No",
                  "a", "A", "all", "All", "always", "Always"}
        answers == SelectSeq(lines, LAMBDA w : w \in known)
    IN  answers # <<>> /\ Head(answers) \in {"n", "N", "no", "No"}

\* History: the operator's first recognised answer on `lines` is an "all".
OperatorAffirmsAll(lines) ==
    LET known == {"y", "Y", "yes", "Yes", "", "n", "N", "no", "No",
                  "a", "A", "all", "All", "always", "Always"}
        answers == SelectSeq(lines, LAMBDA w : w \in known)
    IN  /\ answers # <<>>
        /\ Head(answers) \in {"a", "A", "all", "All", "always", "Always"}

\* The answers tried at a prompt: the trimmed lines the operator types.
AnswerWords == {"y", "", "n", "No", "a", "q"}

AnswerLines ==
    {<<>>} \cup { <<w>> : w \in AnswerWords }
           \cup { <<"q", w>> : w \in AnswerWords }

(***************************************************************************)
(* The closure `start`, lines 109-111: tx.send(arg).unwrap(); i += 1.      *)
(* send fails, and unwrap panics, when every Receiver has been dropped.    *)
(***************************************************************************)
Send(arg, src) ==
    IF JobReceivers = 0
    THEN /\ ProcessExit(PanicStatus, "panic")
         /\ UNCHANGED <<jobQueue, i>>
    ELSE /\ jobQueue' = Append(jobQueue, [arg |-> arg, src |-> src])
         /\ i' = i + 1
         /\ UNCHANGED exitVars

(***************************************************************************)
(* One iteration of the loop over the source, lines 126-137, with the call *)
(* of the closure `start` (lines 84-112) on the next argument: the gate,   *)
(* when it has to ask, then the send.  A stream yields any line, or ends.  *)
(***************************************************************************)
Start(lines) ==
    /\ ~exited
    /\ mainPc = "add_jobs"
    /\ source # "unset"
    /\ pos < MaxArgs
    /\ \E arg \in ArgStrings :
          /\ source = "list" =>
                pos < Len(opts.arguments) /\ arg = opts.arguments[pos + 1]
          /\ LET src == pos + 1
                 decision == IF Asking THEN Gate(lines) ELSE "break"
             IN  /\ prompts' = IF Asking THEN prompts \cup {ShownAt(src, arg)}
                                         ELSE prompts
                 /\ declined' = IF Asking /\ OperatorDeclines(lines)
                                THEN declined \cup {src}
                                ELSE declined
                 /\ affirmedAll' =
                        IF Asking /\ OperatorAffirmsAll(lines)
                        THEN src
                        ELSE affirmedAll
                 /\ CASE decision = "eof" ->
                           /\ log' = Append(log, [level |-> "error",
                                                   src |-> src])
                           /\ ProcessExit(1, "stdin_eof")
                           /\ UNCHANGED <<always, jobQueue, i>>
                      [] decision = "return" ->
                           UNCHANGED <<always, jobQueue, i, log, exitVars>>
                      [] decision \in {"break", "always"} ->
                           /\ always' = (always \/ decision = "always")
                           /\ Send(arg, src)
                           /\ UNCHANGED log
    /\ pos' = pos + 1
    /\ UNCHANGED <<workerLog, opts, mainPc, source, txAlive, workers, now,
                   resultQueue, collectorVars>>

(***************************************************************************)
(* The source is exhausted: add_jobs returns, which drops `tx`, and main   *)
(* goes on to the collector loop.                                          *)
(***************************************************************************)
AddJobsReturn ==
    /\ ~exited
    /\ mainPc = "add_jobs"
    /\ source # "unset"
    /\ source = "list" => pos = Len(opts.arguments)
    /\ txAlive' = FALSE
    /\ mainPc' = "collect"
    /\ UNCHANGED <<workerLog, opts, producerVars, jobQueue, workers, now,
                   resultQueue, collectorVars, log, exitVars>>

(***************************************************************************)
(* fn run: the Execution Backend evaluates cmd.  Its outcome is not        *)
(* decided by the engine: it fails ("Err", logged, status 1) or yields the *)
(* status of the command.                                                  *)
(***************************************************************************)
Err == [ok |-> FALSE, status |-> 0]
Ok(status) == [ok |-> TRUE, status |-> status]

Outcomes == {Err, Ok(0), Ok(FailStatus)}

\* Variant: a backend error is reported with the status of a success.
runErrZero(outcome) == IF ~outcome.ok THEN 0 ELSE outcome.status

run(outcome) == IF ~outcome.ok THEN 1 ELSE outcome.status

(***************************************************************************)
(* Worker thread `seq`, line 188: jobs.recv() returns a job; lines         *)
(* 189-190 read the clock and resolve the command.                         *)
(***************************************************************************)
WorkerRecv(seq) ==
    /\ ~exited
    /\ workers[seq].state = "idle"
    /\ jobQueue # <<>>
    /\ LET job == Head(jobQueue) IN
          workers' = [workers EXCEPT ![seq] =
                         [state |-> "running", job |-> job.arg, src |-> job.src,
                          start |-> now,
                          cmd |-> Replace(opts.command, job.arg)]]
    /\ jobQueue' = Tail(jobQueue)
    /\ UNCHANGED <<workerLog, opts, mainPc, producerVars, txAlive, now,
                   resultQueue, collectorVars, log, exitVars>>

(***************************************************************************)
(* The duration stored in the JobResult, line 192:                         *)
(*   start.signed_duration_since(Local::now())                             *)
(***************************************************************************)
Duration(start, end) == start - end

(***************************************************************************)
(* Worker thread `seq`, lines 191-201: the backend call returns after the  *)
(* clock has advanced by d, the clock is read again and the JobResult is   *)
(* sent.                                                                   *)
(***************************************************************************)
WorkerFinish(seq) ==
    /\ ~exited
    /\ workers[seq].state = "running"
    /\ \E outcome \in Outcomes, d \in 0..1 :
          /\ now + d <= MaxClock
          /\ now' = now + d
          /\ workerLog' = IF ~outcome.ok
                          THEN workerLog \cup {[level |-> "error",
                                                src |-> workers[seq].src]}
                          ELSE workerLog
          /\ resultQueue' = Append(resultQueue,
                [seq       |-> seq,
                 exit_code |-> run(outcome),
                 start     |-> workers[seq].start,
                 duration  |-> Duration(workers[seq].start, now + d),
                 cmd       |-> workers[seq].cmd,
                 src       |-> workers[seq].src])
    /\ workers' = [workers EXCEPT ![seq] = IdleWorker]
    /\ UNCHANGED <<opts, mainPc, producerVars, txAlive, jobQueue,
                   collectorVars, log, exitVars>>

(***************************************************************************)
(* Worker thread `seq`, line 188: jobs.recv() returns Err once the Job     *)
(* Queue is empty and `tx` is dropped; the thread ends, dropping its       *)
(* Receiver and its Sender.                                                *)
(***************************************************************************)
WorkerExit(seq) ==
    /\ ~exited
    /\ workers[seq].state = "idle"
    /\ jobQueue = <<>>
    /\ ~txAlive
    /\ workers' = [workers EXCEPT ![seq].state = "exited"]
    /\ UNCHANGED <<workerLog, opts, mainPc, producerVars, txAlive, jobQueue,
                   now, resultQueue, collectorVars, log, exitVars>>

(***************************************************************************)
(* Body of the collector loop, lines 240-256, for one received result.     *)
(***************************************************************************)
CollectorLog(result) ==
    IF opts.dry_run THEN <<>>
    ELSE <<[level |-> "info", src |-> result.src]>>
         \o (IF result.exit_code # 0
             THEN <<[level |-> "warn", src |-> result.src]>>
             ELSE <<>>)

\* Variant: the test of opts.halt is left out, every failure is only recorded.
HaltsNever(result) == FALSE

\* Variant: the halt test stands outside the test of opts.dry_run.
HaltsInDryRun(result) == result.exit_code # 0 /\ opts.halt

Halts(result) == ~opts.dry_run /\ result.exit_code # 0 /\ opts.halt

\* Variant: the test of opts.dry_run is left out.
FoldInDryRun(e, result) ==
    IF result.exit_code # 0 THEN 1 ELSE e

\* Variant: `exit` follows the last result instead of accumulating.
FoldLast(e, result) ==
    IF ~opts.dry_run /\ result.exit_code # 0 THEN 1 ELSE 0

Fold(e, result) ==
    IF ~opts.dry_run /\ result.exit_code # 0 THEN 1 ELSE e

\* Variant: the collector loop runs on a thread of its own, next to add_jobs.
CollectRecvConcurrent ==
    /\ ~exited
    /\ mainPc \in {"add_jobs", "collect"}
    /\ resultQueue # <<>>
    /\ LET result == Head(resultQueue) IN
          /\ received' = Append(received, result)
          /\ log' = log \o CollectorLog(result)
          /\ IF Halts(result)
             THEN /\ ProcessExit(1, "halt")
                  /\ UNCHANGED exit
             ELSE /\ exit' = Fold(exit, result)
                  /\ UNCHANGED exitVars
    /\ resultQueue' = Tail(resultQueue)
    /\ UNCHANGED <<workerLog, opts, mainPc, producerVars, txAlive, jobQueue,
                   workers, now>>

CollectRecv ==
    /\ ~exited
    /\ mainPc = "collect"
    /\ resultQueue # <<>>
    /\ LET result == Head(resultQueue) IN
          /\ received' = Append(received, result)
          /\ log' = log \o CollectorLog(result)
          /\ IF Halts(result)
             THEN /\ ProcessExit(1, "halt")
                  /\ UNCHANGED exit
             ELSE /\ exit' = Fold(exit, result)
                  /\ UNCHANGED exitVars
    /\ resultQueue' = Tail(resultQueue)
    /\ UNCHANGED <<workerLog, opts, mainPc, producerVars, txAlive, jobQueue,
                   workers, now>>

\* Variant: the loop ends as soon as the Result Queue is found empty, as
\* with try_recv.
CollectDoneOnEmpty ==
    /\ ~exited
    /\ mainPc = "collect"
    /\ resultQueue = <<>>
    /\ ProcessExit(exit, "normal")
    /\ UNCHANGED <<workerLog, opts, mainPc, producerVars, txAlive, jobQueue,
                   workers, now, resultQueue, collectorVars, log>>

(***************************************************************************)
(* rrx.recv() returns Err, line 240: the Result Queue is empty and every   *)
(* Sender is dropped.  Lines 257-258: std::process::exit(exit).            *)
(***************************************************************************)
CollectDone ==
    /\ ~exited
    /\ mainPc = "collect"
    /\ resultQueue = <<>>
    /\ ResultSenders = 0
    /\ ProcessExit(exit, "normal")
    /\ UNCHANGED <<workerLog, opts, mainPc, producerVars, txAlive, jobQueue,
                   workers, now, resultQueue, collectorVars, log>>

Next ==
    \/ StartWorkers
    \/ AddJobsOpen
    \/ \E lines \in AnswerLines : Start(lines)
    \/ AddJobsReturn
    \/ \E seq \in DOMAIN workers : WorkerRecv(seq)
    \/ \E seq \in DOMAIN workers : WorkerFinish(seq)
    \/ \E seq \in DOMAIN workers : WorkerExit(seq)
    \/ CollectRecv
    \/ CollectDone

Spec == Init /\ [][Next]_vars

SpecText == InitText /\ [][Next]_vars

(***************************************************************************)
(* The threads are scheduled by the operating system and the backend       *)
(* returns: while some thread can take a step, a step is taken.            *)
(***************************************************************************)
FairSpec == Spec /\ WF_vars(Next)

(***************************************************************************)
(* Notions used by the properties.                                         *)
(***************************************************************************)
Range(f) == { f[k] : k \in DOMAIN f }

Running == { w \in DOMAIN workers : workers[w].state = "running" }

\* Ordinals of the arguments that are a job somewhere in the pipeline.
Queued == { j.src : j \in Range(jobQueue) }
InFlight == { workers[w].src : w \in Running }
Published == { r.src : r \in Range(resultQueue) }
Collected == { r.src : r \in Range(received) }
Submitted == Queued \cup InFlight \cup Published \cup Collected

Failed(results) == \E k \in DOMAIN results : results[k].exit_code # 0

\* The producer stopped the process: arg-file not opened, no answer to read,
\* or the send of line 110 panicked.
ProducerFatal == exitBy \in {"argfile", "stdin_eof", "panic"}

(***************************************************************************)
(* C1.  When the process ends without a decline at the Interactive Gate,   *)
(* without halt-on-error firing and without a fatal input error, the       *)
(* collector has received one result for each argument the source          *)
(* supplied, and no two results stem from one argument: for every --jobs   *)
(* and every argument source.                                              *)
(***************************************************************************)
C1_EveryJobCollectedOnce ==
    (exited /\ declined = {} /\ exitBy \notin {"halt", "argfile", "stdin_eof"})
        => /\ Len(received) = pos
           /\ \A j, k \in DOMAIN received :
                 j # k => received[j].src # received[k].src

(***************************************************************************)
(* C2.  After a run that drained all its N jobs, the seq fields of the     *)
(* results received are pairwise distinct and their set is 0..N-1.         *)
(***************************************************************************)
C2_SeqNumbersJobs ==
    exitBy = "normal"
        => /\ { received[k].seq : k \in DOMAIN received }
                 = 0..(Len(received) - 1)
           /\ \A j, k \in DOMAIN received :
                 j # k => received[j].seq # received[k].seq

(***************************************************************************)
(* C3.  Every JobResult a worker has published has duration >= 0.          *)
(***************************************************************************)
C3_DurationNonNegative ==
    \A r \in Range(resultQueue) \cup Range(received) : r.duration >= 0

(***************************************************************************)
(* C4.  With an explicit argument list of length A, the number of worker   *)
(* threads started, and so the number of commands running at one instant,  *)
(* is at most min(configuredJobs ?? numberOfLogicalCores, A).              *)
(***************************************************************************)
PoolLimit ==
    LET configured == IF opts.jobs = None THEN NumCpus ELSE opts.jobs[1]
        A == Len(opts.arguments)
    IN  IF configured < A THEN configured ELSE A

C4_PoolWithinLimit ==
    (Spawned /\ Len(opts.arguments) > 0)
        => /\ Cardinality(DOMAIN workers) <= PoolLimit
           /\ Cardinality(Running) <= PoolLimit

\* More workers are configured than there are arguments, and as many
\* commands as there are arguments run at once.
C4_Witness ==
    /\ ConfiguredJobs > Len(opts.arguments)
    /\ Len(opts.arguments) > 0
    /\ Cardinality(Running) = Len(opts.arguments)

(***************************************************************************)
(* C5.  With --jobs 0 the run has one worker per argument of the list, and *)
(* every argument is dispatched: the producer does not fail to send.       *)
(***************************************************************************)
C5_ZeroJobsOneWorkerPerJob ==
    (opts.jobs = Some(0) /\ Spawned)
        => /\ Cardinality(DOMAIN workers) = Len(opts.arguments)
           /\ exitBy # "panic"

(***************************************************************************)
(* C6.  When the arguments are streamed (no explicit list), the number of  *)
(* worker threads started is configuredJobs ?? numberOfLogicalCores, and   *)
(* the streamed arguments are dispatched to them.                          *)
(***************************************************************************)
C6_StreamPoolUnclamped ==
    (Len(opts.arguments) = 0 /\ Spawned)
        => /\ Cardinality(DOMAIN workers) =
                 (IF opts.jobs = None THEN NumCpus ELSE opts.jobs[1])
           /\ exitBy # "panic"

(***************************************************************************)
(* C7.  In dry-run mode, whatever statuses the backend returns, the        *)
(* collector records no failure and never halts, and the process it ends   *)
(* has exit status 0.                                                      *)
(***************************************************************************)
C7_DryRunSucceeds ==
    opts.dry_run
        => /\ exit = 0
           /\ exitBy # "halt"
           /\ (exited /\ ~ProducerFatal) => exitStatus = Some(0)

\* A dry run has ended although the backend reported a nonzero status.
C7_Witness ==
    /\ opts.dry_run
    /\ exitBy = "normal"
    /\ Failed(received)

(***************************************************************************)
(* C8.  With --halt-on-error and no dry-run, a received result with a      *)
(* nonzero exit code is the last one received: the process has exited with *)
(* status 1 in the step that received it, whatever is still queued or      *)
(* running.                                                                *)
(***************************************************************************)
C8_HaltAtFirstFailure ==
    (opts.halt /\ ~opts.dry_run)
        => \A k \in DOMAIN received :
              received[k].exit_code # 0
                  => /\ k = Len(received)
                     /\ exited
                     /\ exitBy = "halt"
                     /\ exitStatus = Some(1)

\* The process halted while another job was still being executed.
C8_Witness ==
    /\ exitBy = "halt"
    /\ Running # {}

(***************************************************************************)
(* C9.  Without halt-on-error, `exit` is 1 exactly when the run is not a   *)
(* dry run and some result received so far had a nonzero exit code (so a   *)
(* later success never resets it), and when the Result Queue is closed and *)
(* drained the process exits with that status.                             *)
(***************************************************************************)
C9_ExitStatusAggregates ==
    ~opts.halt
        => /\ exit = (IF ~opts.dry_run /\ Failed(received) THEN 1 ELSE 0)
           /\ exitBy = "normal"
                 => /\ exitStatus = Some(exit)
                    /\ resultQueue = <<>>
                    /\ ResultSenders = 0

\* A failure was followed by a success and the run ended with status 1.
C9_Witness ==
    /\ ~opts.halt
    /\ exitBy = "normal"
    /\ exitStatus = Some(1)
    /\ Len(received) >= 2
    /\ received[1].exit_code # 0
    /\ received[Len(received)].exit_code = 0

(***************************************************************************)
(* C10.  An argument declined at the Interactive Gate is never on the Job  *)
(* Queue, never executed and never yields a result; the producer goes on,  *)
(* and every argument it has dealt with and that was not declined has been *)
(* submitted.                                                              *)
(***************************************************************************)
C10_DeclinedNeverRuns ==
    /\ declined \cap Submitted = {}
    /\ ~ProducerFatal => Submitted = (1..pos) \ declined

\* The first argument was declined and a later one has been executed.
C10_Witness ==
    /\ 1 \in declined
    /\ \E r \in Range(received) : r.src > 1

(***************************************************************************)
(* C11.  Once the operator has answered affirm-all on argument b, the      *)
(* `always` flag is set and stays set, b itself is submitted, and every    *)
(* later argument is submitted without a prompt: no prompt is printed for  *)
(* an argument after b and none of them is declined.                       *)
(***************************************************************************)
Prompted == { p[1] : p \in prompts }

C11_AffirmAllStopsPrompting ==
    affirmedAll # 0
        => /\ always
           /\ \A src \in Prompted : src <= affirmedAll
           /\ declined \cap (affirmedAll..pos) = {}
           /\ ~ProducerFatal => (affirmedAll..pos) \subseteq Submitted

\* The first argument was answered "a" and the second one has been executed.
C11_Witness ==
    /\ affirmedAll = 1
    /\ 2 \in Collected
    /\ 2 \notin Prompted

(***************************************************************************)
(* C12.  The command of a job is the template with every occurrence of     *)
(* "{}" replaced by the job's argument, a template without "{}" is its own *)
(* command for every argument, and the command shown in the prompt for an  *)
(* argument is the command the worker executes for it.  The expected texts *)
(* are written out per template: "e{}" gives e<arg>, "e" gives e, and      *)
(* "{}e{}" gives <arg>e<arg>.                                              *)
(***************************************************************************)
Substituted(template, arg) ==
    CASE template = <<"e", "{", "}">> -> <<"e">> \o arg
      [] template = <<"e">> -> <<"e">>
      [] template = <<"{", "}", "e", "{", "}">> -> arg \o <<"e">> \o arg

C12_PlaceholderSubstitution ==
    source = "list"
        => /\ \A r \in Range(resultQueue) \cup Range(received) :
                /\ r.cmd = Substituted(opts.command, opts.arguments[r.src])
                /\ r.src \in Prompted => <<r.src, r.cmd>> \in prompts
           /\ \A p \in prompts :
                p[2] = Substituted(opts.command, opts.arguments[p[1]])

\* Both occurrences of "{}" were replaced by the argument "{}" itself, in
\* the prompt and in the command executed.
C12_Witness ==
    /\ opts.command = <<"{", "}", "e", "{", "}">>
    /\ \E r \in Range(received) :
          /\ r.cmd = <<"{", "}", "e", "{", "}">>
          /\ r.src = 2
          /\ <<2, r.cmd>> \in prompts

(***************************************************************************)
(* C13.  Under fair scheduling every run eventually terminates through the *)
(* normal path: the producer closes the Job Queue, the workers drain it    *)
(* and exit, the Result Queue closes and the collector leaves its loop and *)
(* exits.  The exits the program makes on purpose, halt-on-error and the   *)
(* two fatal input errors, are counted as terminations too.                *)
(***************************************************************************)
C13_TerminatesNormally ==
    <>(exited /\ exitBy \in {"normal", "halt", "argfile", "stdin_eof"})

(***************************************************************************)
(* C14.  With a non-empty explicit list the jobs are the explicit          *)
(* arguments, in list order, and nothing else: the arg-file and stdin are  *)
(* never chosen as the source, an arg-file that cannot be opened ends no   *)
(* run, every job queued or running carries the list's argument of its     *)
(* ordinal, the queue is in list order, and unless the operator declines   *)
(* one, all of the list has been sent when add_jobs returns.               *)
(***************************************************************************)
C14_ExplicitListOnly ==
    Len(opts.arguments) > 0
        => /\ source \in {"unset", "list"}
           /\ exitBy # "argfile"
           /\ pos <= Len(opts.arguments)
           /\ \A k \in DOMAIN jobQueue :
                /\ jobQueue[k].arg = opts.arguments[jobQueue[k].src]
                /\ k > 1 => jobQueue[k - 1].src < jobQueue[k].src
           /\ \A w \in Running : workers[w].job = opts.arguments[workers[w].src]
           /\ (mainPc = "collect" /\ declined = {})
                 => i = Len(opts.arguments)

\* A run given both a list and --arg-file has executed the list and ended.
C14_Witness ==
    /\ opts.argfile # None
    /\ Len(opts.arguments) > 0
    /\ exitBy = "normal"
    /\ Len(received) = Len(opts.arguments)

(***************************************************************************)
(* C15.  The collector leaves its loop by the normal path only when every  *)
(* worker has exited and every JobResult published has been received: at   *)
(* that exit no worker is idle or running, both queues are empty, and the  *)
(* collector has received one result for each job the producer sent.       *)
(***************************************************************************)
C15_CollectorLeavesLast ==
    exitBy = "normal"
        => /\ \A w \in DOMAIN workers : workers[w].state = "exited"
           /\ resultQueue = <<>>
           /\ jobQueue = <<>>
           /\ Len(received) = i

\* Two workers have exited and the collector has left with both results.
C15_Witness ==
    /\ exitBy = "normal"
    /\ Cardinality(DOMAIN workers) = 2
    /\ Len(received) = 2
    /\ received[1].seq # received[2].seq

(***************************************************************************)
(* C16.  For each JobResult the collector has received, in every mode,     *)
(* the main thread's log holds exactly one record of it: at info level if  *)
(* its exit code is zero, at warning level otherwise.                      *)
(***************************************************************************)
RecordsOf(src) ==
    { j \in DOMAIN log : log[j].src = src /\ log[j].level \in {"info", "warn"} }

C16_OneRecordPerResult ==
    \A k \in DOMAIN received :
        /\ Cardinality(RecordsOf(received[k].src)) = 1
        /\ \A j \in RecordsOf(received[k].src) :
              log[j].level = IF received[k].exit_code = 0 THEN "info"
                                                            ELSE "warn"

(***************************************************************************)
(* C17.  A job whose backend call returned Err (the worker logged the      *)
(* error) has exactly one JobResult, with exit code 1.  The worker goes on *)
(* pulling jobs and no worker is stopped by it: a worker has exited only   *)
(* when the Job Queue was closed and drained, and at the normal exit every *)
(* job sent has produced its result.                                       *)
(***************************************************************************)
ResultsOf(src) ==
    LET published == resultQueue \o received
    IN  { k \in DOMAIN published : published[k].src = src }

C17_BackendErrorIsOneFailedJob ==
    /\ \A e \in workerLog :
          /\ Cardinality(ResultsOf(e.src)) = 1
          /\ \A r \in Range(resultQueue) \cup Range(received) :
                r.src = e.src => r.exit_code = 1
    /\ \A w \in DOMAIN workers :
          workers[w].state = "exited" => jobQueue = <<>> /\ ~txAlive
    /\ exitBy = "normal" => Cardinality(Collected) = i

\* The backend failed on the first job; the same worker, one of two, ran
\* the second job afterwards.
C17_Witness ==
    /\ Cardinality(DOMAIN workers) = 2
    /\ Len(received) = 2
    /\ \E e \in workerLog : e.src = received[1].src
    /\ received[1].exit_code = 1
    /\ received[2].seq = received[1].seq
    /\ received[2].exit_code = 0

(***************************************************************************)
(* C18.  The producer and the collector never overlap: until add_jobs has  *)
(* returned and the Job Queue is closed, no JobResult has been received,   *)
(* none has been logged or folded into `exit`, and the collector has ended *)
(* no run; the results made meanwhile wait in the Result Queue.            *)
(***************************************************************************)
C18_CollectorAfterProducer ==
    /\ received # <<>> => mainPc = "collect" /\ ~txAlive
    /\ mainPc # "collect"
          => /\ exit = 0
             /\ exitBy \notin {"halt", "normal"}
             /\ \A j \in DOMAIN log : log[j].level = "error"

\* A result waits in the Result Queue while the producer has an argument left.
C18_Witness ==
    /\ mainPc = "add_jobs"
    /\ ~exited
    /\ resultQueue # <<>>
    /\ pos < Len(opts.arguments)
    /\ received = <<>>

(***************************************************************************)
(* C19.  Dry-run overrides halt-on-error: with both flags no run is ended  *)
(* by a nonzero exit code, the collector drains the result of every job    *)
(* sent, all of an explicit list, and the process exits with status 0.     *)
(***************************************************************************)
C19_DryRunOverridesHalt ==
    (opts.dry_run /\ opts.halt)
        => /\ exitBy # "halt"
           /\ exitBy = "normal"
                 => /\ exitStatus = Some(0)
                    /\ Len(received) = i
                    /\ source = "list" => Len(received) = Len(opts.arguments)

\* Both flags, the first of two results is a failure, and the run went on to
\* the second and ended normally.
C19_Witness ==
    /\ opts.dry_run
    /\ opts.halt
    /\ exitBy = "normal"
    /\ Len(received) = 2
    /\ received[1].exit_code # 0

(***************************************************************************)
(* C20.  When the worker count is 0 (empty explicit list, or --jobs 0) no  *)
(* thread is spawned and the channel ends handed to start_workers are      *)
(* dropped: no job is ever queued, executed or reported.  An argument that *)
(* reaches tx.send makes the process panic instead of exiting normally;    *)
(* with no argument to send the collector finds the Result Queue closed at *)
(* once and the process exits with status 0.                               *)
(***************************************************************************)
ZeroWorkers == Len(opts.arguments) = 0 \/ opts.jobs = Some(0)

====
